---------------------------- MODULE Spec2Model ----------------------------
(***************************************************************************)
(* HappyRepair: the relational store (mechanics, mechanic_services,        *)
(* reviews and their triggers), the proximity search function              *)
(* find_mechanics_within_radius and the HTTP handlers in front of it.      *)
(*                                                                         *)
(* Fixed-point conventions                                                 *)
(*   ratings as stored in mechanics.rating : hundredths (4.67 is 467)      *)
(*   coordinates                           : 1/10000 of a degree           *)
(*   distances                             : metres                        *)
(*   distance_miles                        : hundredths of a mile          *)
(***************************************************************************)
EXTENDS Integers, Sequences, FiniteSets, TLC

VARIABLES
    mechanics,          \* table mechanics: id -> row
    reviews,            \* table reviews: set of rows (id unique)
    mechanic_services,  \* table mechanic_services: set of rows
    lastWrite,          \* the last statement executed on reviews
    txs,                \* concurrent transactions inserting reviews
    search,             \* the last call of find_mechanics_within_radius
    ops,                \* number of write statements executed so far
    http,               \* the request in flight in the HTTP layer
    service_rows,       \* table services: id -> row
    service_translations, \* table service_translations: set of rows
    node_env,           \* process.env.NODE_ENV of the server process
    installed,          \* the functions and triggers the store's schema defines
    proc                \* the server process: its pool, signal handlers and exit

vars == <<mechanics, reviews, mechanic_services, lastWrite, txs, search, ops, http,
          service_rows, service_translations, node_env, installed, proc>>

-----------------------------------------------------------------------------
(* Bounds of the model *)

NumMechanics == 2
MaxReviews == 3
NumTxs == 2
MaxReviewWrites == 3
MaxCatalogWrites == 1
MaxMechanicWrites == 2
MaxInsertedMechanics == 1
MaxPriceWrites == 1
MaxServiceWrites == 1

(* SQL NULL of a numeric column, and of the geography column *)
NULL == -100000
NoPoint == <<>>

MechanicIds == 1..NumMechanics
ReviewIds == 1..MaxReviews
TxIds == 1..NumTxs

(* reviews.rating INTEGER NOT NULL CHECK (rating >= 1 AND rating <= 5) *)
MinRating == 1
MaxRating == 5
Ratings == MinRating..MaxRating

(* The ratings the model writes: the lowest, the middle and the highest *)
InputRatings == {MinRating, (MinRating + MaxRating) \div 2, MaxRating}

(* mechanics.rating DECIMAL(3,2) DEFAULT 0.0, review_count INTEGER DEFAULT 0 *)
DefaultRating == 0
DefaultReviewCount == 0

-----------------------------------------------------------------------------
(* Arithmetic helpers *)

Abs(x) == IF x < 0 THEN -x ELSE x

RECURSIVE SumRating(_)
SumRating(S) ==
    IF S = {} THEN 0
    ELSE LET r == CHOOSE x \in S : TRUE
         IN  r.rating + SumRating(S \ {r})

(* ROUND(AVG(rating)::numeric, 2) over a non-empty set of rows, in         *)
(* hundredths; numeric ROUND rounds half away from zero; NULL on no rows.  *)
RoundAvg2(S) ==
    IF S = {} THEN NULL
    ELSE (200 * SumRating(S) + Cardinality(S)) \div (2 * Cardinality(S))

-----------------------------------------------------------------------------
(* Triggers on mechanics *)

ST_MakePoint(x, y) == <<x, y>>

(* Faulty variant of update_mechanic_location: a location the statement    *)
(* supplies is kept                                                        *)
update_mechanic_location_IfNull(NewRow) ==
    IF NewRow.latitude # NULL /\ NewRow.longitude # NULL /\ NewRow.location = NoPoint
    THEN [NewRow EXCEPT !.location = ST_MakePoint(NewRow.longitude, NewRow.latitude)]
    ELSE NewRow

(* BEFORE INSERT OR UPDATE ON mechanics FOR EACH ROW; NewRow is SQL's NEW *)
update_mechanic_location(NewRow) ==
    IF NewRow.latitude # NULL /\ NewRow.longitude # NULL
    THEN [NewRow EXCEPT !.location = ST_MakePoint(NewRow.longitude, NewRow.latitude)]
    ELSE NewRow

(* What the schema of backend/src/database/schema/schema.sql defines next  *)
(* to its tables, and what the schema that scripts/setup-schema.sh writes  *)
(* over that file defines: tables and indexes only.                        *)
SchemaSqlObjects ==
    {"update_mechanic_location_trigger", "update_mechanic_rating_trigger",
     "find_mechanics_within_radius"}

(* Faulty variant of SetupSchemaObjects: the script's schema with the      *)
(* search function                                                         *)
SetupSchemaObjectsWithFunction == {"find_mechanics_within_radius"}

SetupSchemaObjects == {}

(* The BEFORE INSERT OR UPDATE row triggers of mechanics that the store    *)
(* has, run on the row NewRow                                              *)
BeforeMechanicsRow(NewRow) ==
    IF "update_mechanic_location_trigger" \in installed
    THEN update_mechanic_location(NewRow)
    ELSE NewRow

(* UPDATE mechanics SET ... WHERE id = mid: the row as stored after the    *)
(* BEFORE UPDATE row triggers have run on it.                              *)
UpdateMechanicsRow(mechs, mid, NewRow) ==
    IF mid \in DOMAIN mechs
    THEN [mechs EXCEPT ![mid] = BeforeMechanicsRow(NewRow)]
    ELSE mechs

-----------------------------------------------------------------------------
(* Trigger on reviews *)

PublishedOf(revs, mid) ==
    {r \in revs : r.mechanic_id = mid /\ r.is_published}

(* Faulty variant of RatingRows: the WHERE clause of the sub-selects       *)
(* without "AND is_published = true".                                      *)
RatingRowsNoPublishedFilter(revs, mid) ==
    {r \in revs : r.mechanic_id = mid}

(* The rows both sub-selects of update_mechanic_rating read *)
RatingRows(revs, mid) == PublishedOf(revs, mid)

(* Faulty variant of update_mechanic_rating: the UPDATE without "WHERE id *)
(* = NEW.mechanic_id", which writes the aggregates to every mechanic       *)
update_mechanic_rating_NoWhere(mechs, visible, NewRow) ==
    [m \in DOMAIN mechs |->
        update_mechanic_location(
            [mechs[m] EXCEPT
                !.rating = RoundAvg2(RatingRows(visible, NewRow.mechanic_id)),
                !.review_count = Cardinality(RatingRows(visible, NewRow.mechanic_id))])]

(* AFTER INSERT OR UPDATE ON reviews FOR EACH ROW; visible is the set of   *)
(* review rows the statement's snapshot shows.                             *)
update_mechanic_rating(mechs, visible, NewRow) ==
    IF NewRow.mechanic_id \in DOMAIN mechs
    THEN UpdateMechanicsRow(mechs, NewRow.mechanic_id,
            [mechs[NewRow.mechanic_id] EXCEPT
                !.rating = RoundAvg2(RatingRows(visible, NewRow.mechanic_id)),
                !.review_count = Cardinality(RatingRows(visible, NewRow.mechanic_id))])
    ELSE mechs

(* The AFTER INSERT OR UPDATE row triggers of reviews that the store has *)
AfterReviewsRow(mechs, visible, NewRow) ==
    IF "update_mechanic_rating_trigger" \in installed
    THEN update_mechanic_rating(mechs, visible, NewRow)
    ELSE mechs

-----------------------------------------------------------------------------
(* Initial state: the store after the schema is loaded and the mechanics   *)
(* have been registered (INSERT INTO mechanics, which runs the location    *)
(* trigger), verified, and given their offerings.                          *)

MechanicRow(lat, lng, active, verified) ==
    update_mechanic_location(
        [latitude |-> lat, longitude |-> lng, location |-> NoPoint,
         is_active |-> active, is_verified |-> verified,
         rating |-> DefaultRating, review_count |-> DefaultReviewCount])

NoReviewWrite == [kind |-> "none", mechanic_id |-> 0]

-----------------------------------------------------------------------------
(* Statements on reviews, each in its own transaction (autocommit) *)

(* id UUID PRIMARY KEY DEFAULT uuid_generate_v4(): an id no row has; the   *)
(* model takes the smallest one.                                           *)
FreeReviewIds(revs) == {i \in ReviewIds : \A r \in revs : r.id # i}
NextReviewId(revs) ==
    IF FreeReviewIds(revs) = {} THEN 0
    ELSE CHOOSE i \in FreeReviewIds(revs) : \A j \in FreeReviewIds(revs) : i <= j

ReviewRow(id, mid, rating, pub) ==
    [id |-> id, mechanic_id |-> mid, rating |-> rating, is_published |-> pub]

(* INSERT INTO reviews ...; the AFTER INSERT row trigger runs in the       *)
(* statement.                                                              *)
InsertReview(id, mid, rating, pub) ==
    /\ ops < MaxReviewWrites
    /\ id = NextReviewId(reviews)
    /\ mid \in DOMAIN mechanics
    /\ LET row == ReviewRow(id, mid, rating, pub)
       IN  /\ reviews' = reviews \cup {row}
           /\ mechanics' = AfterReviewsRow(mechanics, reviews \cup {row}, row)
           /\ lastWrite' = [kind |-> "insert", mechanic_id |-> mid]
    /\ ops' = ops + 1
    /\ UNCHANGED <<mechanic_services, txs, search, http, service_rows, service_translations, node_env, installed, proc>>

(* UPDATE reviews SET mechanic_id = .., rating = .., is_published = ..     *)
(* WHERE id = ..; the AFTER UPDATE row trigger runs with the new row.      *)
UpdateReview(id, mid, rating, pub) ==
    /\ ops < MaxReviewWrites
    /\ \E old \in reviews :
          /\ old.id = id
          /\ mid \in DOMAIN mechanics
          /\ LET row == ReviewRow(id, mid, rating, pub)
                 revs == (reviews \ {old}) \cup {row}
             IN  /\ reviews' = revs
                 /\ mechanics' = AfterReviewsRow(mechanics, revs, row)
                 /\ lastWrite' = [kind |-> "update", mechanic_id |-> mid]
    /\ ops' = ops + 1
    /\ UNCHANGED <<mechanic_services, txs, search, http, service_rows, service_translations, node_env, installed, proc>>

(* DELETE FROM reviews WHERE id = ..; no trigger is declared for DELETE.   *)
DeleteReview(id) ==
    /\ ops < MaxReviewWrites
    /\ \E old \in reviews :
          /\ old.id = id
          /\ reviews' = reviews \ {old}
          /\ lastWrite' = [kind |-> "delete", mechanic_id |-> old.mechanic_id]
    /\ ops' = ops + 1
    /\ UNCHANGED <<mechanics, mechanic_services, txs, search, http, service_rows, service_translations, node_env, installed, proc>>

-----------------------------------------------------------------------------
(* The initial store *)

OilChange == <<"O", "i", "l", " ", "C", "h", "a", "n", "g", "e">>
TireRotation == <<"T", "i", "r", "e", " ", "R", "o", "t", "a", "t", "i", "o", "n">>

(* table services: id -> name (INSERT INTO services, sample data) *)
services == <<OilChange, TireRotation>>
ServiceIds == DOMAIN services

(* a mechanic_services row; the cost columns the statement does not name   *)
(* are NULL                                                                *)
OfferingRow(mid, sid, lo, hi, avail) ==
    [mechanic_id |-> mid, service_id |-> sid, min_price |-> lo,
     max_price |-> hi, is_available |-> avail,
     parts_cost_min |-> NULL, parts_cost_max |-> NULL,
     labor_cost_min |-> NULL, labor_cost_max |-> NULL]

(* Los Angeles, 34.0522 N 118.2437 W; mechanic m lies m - 1 grid steps     *)
(* north of it.                                                            *)
SeedLatitude == 340522
SeedLongitude == -1182437

SeedMechanics ==
    [m \in MechanicIds |-> MechanicRow(SeedLatitude + (m - 1), SeedLongitude, TRUE, TRUE)]

(* Every mechanic offers Oil Change; an odd one also Tire Rotation, which  *)
(* is not available at present.                                            *)
SeedOfferings ==
    {OfferingRow(m, 1, 30 + 10 * ((m - 1) % 2), 50 + 10 * ((m - 1) % 2), TRUE) : m \in MechanicIds}
    \cup {OfferingRow(m, 2, 20, 70, FALSE) : m \in {i \in MechanicIds : i % 2 = 1}}

(* The master services list and its Spanish translations (sample data).   *)
(* Tire Rotation is left without a translation.                            *)
BeltReplacement == <<"B", "e", "l", "t", " ", "R", "e", "p", "l", "a", "c",
    "e", "m", "e", "n", "t">>
ACService == <<"A", "C", " ", "S", "e", "r", "v", "i", "c", "e">>
Maintenance == <<"M", "a", "i", "n", "t", "e", "n", "a", "n", "c", "e">>
Repair == <<"R", "e", "p", "a", "i", "r">>
CambioDeAceite == <<"C", "a", "m", "b", "i", "o", " ", "d", "e", " ", "A",
    "c", "e", "i", "t", "e">>
ReemplazoDeCorrea == <<"R", "e", "e", "m", "p", "l", "a", "z", "o", " ",
    "d", "e", " ", "C", "o", "r", "r", "e", "a">>
ServicioDeAireAcondicionado == <<"S", "e", "r", "v", "i", "c", "i", "o",
    " ", "d", "e", " ", "A", "i", "r", "e", " ", "A", "c", "o", "n", "d",
    "i", "c", "i", "o", "n", "a", "d", "o">>
LangEn == <<"e", "n">>
LangEs == <<"e", "s">>
LangFr == <<"f", "r">>

(* A description is the tuple of its text; <<>> is NULL. *)
ServiceRow(name, category, description, active) ==
    [name |-> name, category |-> category, description |-> description, is_active |-> active]

SeedServices ==
    <<ServiceRow(OilChange, Maintenance, <<"Standard oil and filter change">>, TRUE),
      ServiceRow(TireRotation, Maintenance, <<"Rotate tires for even wear">>, TRUE),
      ServiceRow(BeltReplacement, Repair, <<"Drive belt or timing belt replacement">>, TRUE),
      ServiceRow(ACService, Repair, <<"Air conditioning system service">>, TRUE)>>

TranslationRow(sid, lang, name, description) ==
    [service_id |-> sid, language_code |-> lang, name |-> name, description |-> description]

SeedTranslations ==
    {TranslationRow(1, LangEs, CambioDeAceite, <<"Cambio estándar de aceite y filtro">>),
     TranslationRow(3, LangEs, ReemplazoDeCorrea, <<"Reemplazo de correa de transmisión o distribución">>),
     TranslationRow(4, LangEs, ServicioDeAireAcondicionado, <<"Servicio del sistema de aire acondicionado">>)}

IdleTx == [pc |-> "idle", row |-> <<>>, snapshot |-> {}]

NoSearch == [called |-> FALSE, search_lat |-> 0, search_lng |-> 0,
             radius_miles |-> 0, service_filter |-> <<>>, filtered |-> FALSE,
             rows |-> <<>>]

(* The keys message and error of a JSON response body: each the set of its *)
(* value, empty when the body has no such key.                             *)
SuccessBody == [message |-> {}, error |-> {}]
ErrorBody(message) == [message |-> {message}, error |-> {}]
ErrorBodyWithDetail(message, detail) == [message |-> {message}, error |-> {detail}]

NodeEnvs == {"development", "production"}

(* The process after startServer(): database.connect() has succeeded, the  *)
(* pool is open, no signal has been delivered.  exit is the exit code, or  *)
(* Running.                                                                *)
Running == -1
RunningProcess ==
    [pool |-> "open", isConnected |-> TRUE, handlers |-> <<>>, exit |-> Running,
     endedTwice |-> FALSE]

IdleHttp ==
    [state |-> "idle", route |-> "none", handler |-> "none", latitude |-> <<>>,
     longitude |-> <<>>, param |-> <<>>, status |-> 0, queried |-> FALSE, failed |-> FALSE,
     params |-> <<>>, rows |-> <<>>, body |-> SuccessBody, cause |-> "", responses |-> 0]

Init ==
    /\ mechanics = SeedMechanics
    /\ reviews = {}
    /\ mechanic_services = SeedOfferings
    /\ lastWrite = NoReviewWrite
    /\ txs = [t \in TxIds |-> IdleTx]
    /\ search = NoSearch
    /\ ops = 0
    /\ http = IdleHttp
    /\ service_rows = SeedServices
    /\ service_translations = SeedTranslations
    /\ node_env \in NodeEnvs
    /\ installed = SchemaSqlObjects
    /\ proc = RunningProcess

-----------------------------------------------------------------------------
(* Review writes, one statement after the other *)

NextReviews ==
    \/ \E id \in ReviewIds, mid \in MechanicIds, rating \in InputRatings, pub \in BOOLEAN :
          InsertReview(id, mid, rating, pub)
    \/ \E id \in ReviewIds, mid \in MechanicIds, rating \in InputRatings, pub \in BOOLEAN :
          UpdateReview(id, mid, rating, pub)
    \/ \E id \in ReviewIds : DeleteReview(id)

SpecReviews == Init /\ [][NextReviews]_vars

(* The stored rating r (hundredths) is the mean of the rows S rounded to   *)
(* two decimals: no hundredth is nearer to the mean than r.                *)
IsMeanRoundedTo2(r, S) ==
    /\ r # NULL
    /\ 2 * Abs(r * Cardinality(S) - 100 * SumRating(S)) <= Cardinality(S)

AggregatesMatch(mid) ==
    /\ mechanics[mid].review_count = Cardinality(PublishedOf(reviews, mid))
    /\ PublishedOf(reviews, mid) # {} =>
          IsMeanRoundedTo2(mechanics[mid].rating, PublishedOf(reviews, mid))

(* C1: after any sequence of review writes (INSERT, UPDATE of any column,  *)
(* DELETE), every mechanic's rating is the mean of its published reviews   *)
(* rounded to 2 decimals and its review_count is their number.             *)
C1_RatingAlwaysConsistent ==
    \A mid \in DOMAIN mechanics : AggregatesMatch(mid)

(* C3: right after a review is inserted or updated, the mechanic the       *)
(* written row names has rating = round(mean of its published reviews, 2)  *)
(* and review_count = their number, whenever a published review remains;   *)
(* published ratings 5, then 5 and 3, give 5.00/1 and 4.00/2.              *)
C3_RecomputedAfterWrite ==
    (/\ lastWrite.kind \in {"insert", "update"}
     /\ PublishedOf(reviews, lastWrite.mechanic_id) # {})
    => LET mid == lastWrite.mechanic_id
           pub == PublishedOf(reviews, mid)
       IN  /\ AggregatesMatch(mid)
           /\ (Cardinality(pub) = 1 /\ SumRating(pub) = 5)
                 => (mechanics[mid].rating = 500 /\ mechanics[mid].review_count = 1)
           /\ (Cardinality(pub) = 2 /\ SumRating(pub) = 8)
                 => (mechanics[mid].rating = 400 /\ mechanics[mid].review_count = 2)

(* C3 witness: a second published review, rating 3, has just been written  *)
(* next to a published 5 and an unpublished review of the same mechanic:   *)
(* the mechanic shows 4.00 / 2.                                            *)
C3_Witness ==
    /\ lastWrite.kind \in {"insert", "update"}
    /\ LET mid == lastWrite.mechanic_id
       IN  /\ {r.rating : r \in PublishedOf(reviews, mid)} = {3, 5}
           /\ Cardinality(PublishedOf(reviews, mid)) = 2
           /\ \E r \in reviews : r.mechanic_id = mid /\ ~r.is_published
           /\ mechanics[mid].rating = 400
           /\ mechanics[mid].review_count = 2

-----------------------------------------------------------------------------
(* Concurrent transactions, each inserting one published review, at the    *)
(* store's default isolation level (READ COMMITTED; the pool sets none).   *)
(* pc: idle -> inserted -> snapshot -> updated -> committed                *)

TxRow(t) == txs[t].row[1]

Uncommitted(revs) ==
    {r \in revs : \E t \in TxIds :
        /\ txs[t].pc \in {"inserted", "snapshot", "updated"}
        /\ TxRow(t) = r}

(* The review rows a statement of transaction t sees: the committed rows   *)
(* and the transaction's own.                                              *)
VisibleTo(t) ==
    {r \in reviews : r \notin Uncommitted(reviews) \/ TxRow(t) = r}

(* The mechanics row mid carries an uncommitted update of another          *)
(* transaction, which holds its row lock until it commits.                 *)
RowLockedByOther(t, mid) ==
    \E u \in TxIds \ {t} : txs[u].pc = "updated" /\ TxRow(u).mechanic_id = mid

(* BEGIN; INSERT INTO reviews ... *)
TxInsert(t, mid, rating) ==
    /\ txs[t].pc = "idle"
    /\ NextReviewId(reviews) # 0
    /\ mid \in DOMAIN mechanics
    /\ LET row == ReviewRow(NextReviewId(reviews), mid, rating, TRUE)
       IN  /\ reviews' = reviews \cup {row}
           /\ txs' = [txs EXCEPT ![t] = [pc |-> "inserted", row |-> <<row>>,
                                         snapshot |-> {}]]
    /\ UNCHANGED <<mechanics, mechanic_services, lastWrite, search, ops, http, service_rows, service_translations, node_env, installed, proc>>

(* The trigger's UPDATE statement starts: it takes its snapshot, which     *)
(* both sub-selects read.                                                  *)
TxTriggerSnapshot(t) ==
    /\ txs[t].pc = "inserted"
    /\ txs' = [txs EXCEPT ![t].pc = "snapshot", ![t].snapshot = VisibleTo(t)]
    /\ UNCHANGED <<mechanics, reviews, mechanic_services, lastWrite, search, ops, http, service_rows, service_translations, node_env, installed, proc>>

(* The trigger's UPDATE gets the row lock (waiting for a concurrent        *)
(* updater to commit) and writes the newest row version with the values    *)
(* of the sub-selects, which still read the statement's snapshot.          *)
TxTriggerUpdate(t) ==
    /\ txs[t].pc = "snapshot"
    /\ ~RowLockedByOther(t, TxRow(t).mechanic_id)
    /\ mechanics' = AfterReviewsRow(mechanics, txs[t].snapshot, TxRow(t))
    /\ txs' = [txs EXCEPT ![t].pc = "updated"]
    /\ UNCHANGED <<reviews, mechanic_services, lastWrite, search, ops, http, service_rows, service_translations, node_env, installed, proc>>

(* COMMIT *)
TxCommit(t) ==
    /\ txs[t].pc = "updated"
    /\ txs' = [txs EXCEPT ![t].pc = "committed"]
    /\ UNCHANGED <<mechanics, reviews, mechanic_services, lastWrite, search, ops, http, service_rows, service_translations, node_env, installed, proc>>

NextConcurrent ==
    \/ \E t \in TxIds, mid \in MechanicIds, rating \in InputRatings :
          TxInsert(t, mid, rating)
    \/ \E t \in TxIds : TxTriggerSnapshot(t)
    \/ \E t \in TxIds : TxTriggerUpdate(t)
    \/ \E t \in TxIds : TxCommit(t)

SpecConcurrent == Init /\ [][NextConcurrent]_vars

(* C2: when transactions concurrently insert published reviews for the     *)
(* same mechanic, after all of them have committed the mechanic's rating   *)
(* and review_count reflect every committed review.                        *)
C2_NoCommittedReviewOmitted ==
    (\A t \in TxIds : txs[t].pc = "committed")
    => \A mid \in DOMAIN mechanics : AggregatesMatch(mid)

-----------------------------------------------------------------------------
(* find_mechanics_within_radius *)

(* ST_Distance / ST_DWithin on geography are PostGIS's geodesic distance   *)
(* in metres.  The model measures along the coordinate grid: one grid step *)
(* (1/10000 degree) is 11 metres, and the distance is the sum of the steps *)
(* in both directions, which is a metric on the grid.  NULL on a NULL      *)
(* argument.                                                               *)
MetersPerStep == 11

ST_Distance(a, b) ==
    IF a = NoPoint \/ b = NoPoint THEN NULL
    ELSE MetersPerStep * (Abs(a[1] - b[1]) + Abs(a[2] - b[2]))

(* radius_miles * 1609.34, in hundredths of a metre *)
MetersPerMileE2 == 160934
(* the factor 0.000621371, times 10^9 *)
MilesPerMeterE9 == 621371

(* ST_DWithin(a, b, radius_miles * 1609.34): geodesic distance <= the      *)
(* tolerance; NULL (not true) on a NULL argument.  The distance is a whole *)
(* number of metres, so the tolerance is compared in whole metres.         *)
ST_DWithin(a, b, radius_miles) ==
    /\ ST_Distance(a, b) # NULL
    /\ ST_Distance(a, b) <= (radius_miles * MetersPerMileE2) \div 100

(* Faulty variant of DistanceMiles: metres to kilometres, d * 0.001 *)
DistanceKilometers(d) == (d + 5) \div 10

(* ROUND((d * 0.000621371)::numeric, 2) for d metres, in hundredths of a   *)
(* mile: floor(d * 621371 / 10^7 + 1/2), computed in two parts so that no  *)
(* intermediate value leaves the 32-bit integers.                          *)
DistanceMiles(d) ==
    ((MilesPerMeterE9 \div 1000) * d + 5000
        + ((MilesPerMeterE9 % 1000) * d) \div 1000) \div 10000

UpperCase == <<"A", "B", "C", "D", "E", "F", "G", "H", "I", "J", "K", "L", "M",
               "N", "O", "P", "Q", "R", "S", "T", "U", "V", "W", "X", "Y", "Z">>
LowerCase == <<"a", "b", "c", "d", "e", "f", "g", "h", "i", "j", "k", "l", "m",
               "n", "o", "p", "q", "r", "s", "t", "u", "v", "w", "x", "y", "z">>

Lower(c) ==
    IF \E i \in DOMAIN UpperCase : UpperCase[i] = c
    THEN LowerCase[CHOOSE i \in DOMAIN UpperCase : UpperCase[i] = c]
    ELSE c

(* str ILIKE pattern: % matches any run of characters, _ any one           *)
(* character, every other character itself up to case.                     *)
RECURSIVE ILike(_, _)
ILike(str, pattern) ==
    IF pattern = <<>> THEN str = <<>>
    ELSE IF Head(pattern) = "%"
         THEN \/ ILike(str, Tail(pattern))
              \/ str # <<>> /\ ILike(Tail(str), pattern)
         ELSE /\ str # <<>>
              /\ Head(pattern) = "_" \/ Lower(Head(pattern)) = Lower(Head(str))
              /\ ILike(Tail(str), Tail(pattern))

(* service_filter IS NULL OR s.name ILIKE '%' || service_filter || '%' *)
FilterMatches(name, filtered, service_filter) ==
    ~filtered \/ ILike(name, <<"%">> \o service_filter \o <<"%">>)

(* Faulty variant of JoinedRows: the WHERE clause without the is_active    *)
(* and is_verified tests.                                                  *)
JoinedRowsAnyStatus(mechs, offers, pt, radius_miles, filtered, service_filter) ==
    {jr \in
        {[m |-> mid, ms |-> ms, s |-> ms.service_id] :
            mid \in DOMAIN mechs,
            ms \in {o \in offers : o.service_id \in ServiceIds}} :
        /\ jr.m = jr.ms.mechanic_id
        /\ jr.ms.is_available
        /\ ST_DWithin(mechs[jr.m].location, pt, radius_miles)
        /\ FilterMatches(services[jr.s], filtered, service_filter)}

(* FROM mechanics m JOIN mechanic_services ms ON m.id = ms.mechanic_id     *)
(* JOIN services s ON ms.service_id = s.id WHERE ...                       *)
JoinedRows(mechs, offers, pt, radius_miles, filtered, service_filter) ==
    {jr \in
        {[m |-> mid, ms |-> ms, s |-> ms.service_id] :
            mid \in DOMAIN mechs,
            ms \in {o \in offers : o.service_id \in ServiceIds}} :
        /\ jr.m = jr.ms.mechanic_id
        /\ mechs[jr.m].is_active
        /\ mechs[jr.m].is_verified
        /\ jr.ms.is_available
        /\ ST_DWithin(mechs[jr.m].location, pt, radius_miles)
        /\ FilterMatches(services[jr.s], filtered, service_filter)}

(* Faulty variant of GroupKey: grouped by the offering as well *)
GroupKeyPerOffering(mechs, jr) ==
    [id |-> jr.m, location |-> mechs[jr.m].location, rating |-> mechs[jr.m].rating,
     service_id |-> jr.s]

(* GROUP BY m.id, m.business_name, m.location, m.rating *)
GroupKey(mechs, jr) ==
    [id |-> jr.m, location |-> mechs[jr.m].location, rating |-> mechs[jr.m].rating]

MaxOf(S) == CHOOSE x \in S : \A y \in S : x >= y
(* Faulty variant of MinOf: MAX where MIN is meant *)
MinOfAsMax(S) == MaxOf(S)
MinOf(S) == CHOOSE x \in S : \A y \in S : x <= y

(* The SELECT list, one row per group *)
ResultRows(mechs, offers, pt, radius_miles, filtered, service_filter) ==
    LET joined == JoinedRows(mechs, offers, pt, radius_miles, filtered, service_filter)
        keys == {GroupKey(mechs, jr) : jr \in joined}
        group(k) == {jr \in joined : GroupKey(mechs, jr) = k}
    IN  {[id |-> k.id,
          distance_miles |-> DistanceMiles(ST_Distance(k.location, pt)),
          rating |-> k.rating,
          min_price |-> MinOf({jr.ms.min_price : jr \in group(k)}),
          max_price |-> MaxOf({jr.ms.max_price : jr \in group(k)})] : k \in keys}

(* Faulty variant of OrderedByDistance: ORDER BY distance_miles DESC *)
OrderedByDistanceDesc(seq) ==
    \A i \in 1..(Len(seq) - 1) : seq[i].distance_miles >= seq[i + 1].distance_miles

(* ORDER BY distance_miles ASC: the output column; rows with the same      *)
(* distance_miles come in any order.                                       *)
OrderedByDistance(seq) ==
    \A i \in 1..(Len(seq) - 1) : seq[i].distance_miles <= seq[i + 1].distance_miles

(* Every result find_mechanics_within_radius may return *)
find_mechanics_within_radius(mechs, offers, search_lat, search_lng, radius_miles, filtered, service_filter) ==
    LET pt == ST_MakePoint(search_lng, search_lat)
        rows == ResultRows(mechs, offers, pt, radius_miles, filtered, service_filter)
    IN  {seq \in [1..Cardinality(rows) -> rows] :
            /\ \A i, j \in DOMAIN seq : i # j => seq[i] # seq[j]
            /\ OrderedByDistance(seq)}

-----------------------------------------------------------------------------
(* Statements on mechanics and mechanic_services, and calls of the search  *)

(* Latitudes and longitudes written to mechanics: the seed, two steps      *)
(* north of it, and NULL.                                                  *)
InputLatitudes == {SeedLatitude, SeedLatitude + 2, NULL}
InputLongitudes == {SeedLongitude, NULL}
InputPrices == {20, 60}

(* Points searched from: the seed and a point 145 steps south of it, from  *)
(* where mechanic 2 lies 146 steps = 1606 m away, the last grid point      *)
(* within 1 mile = 1609.34 m.                                              *)
SearchLatitudes == {SeedLatitude, SeedLatitude - 145}
SearchRadii == {0, 1, 2}
SearchFilters == {<<"o", "i", "l">>, <<"T", "I", "R", "E">>, <<"_">>, <<"z">>}

(* UPDATE mechanics SET is_active = .., is_verified = .. WHERE id = mid *)
SetMechanicStatus(mid, active, verified) ==
    /\ ops < MaxCatalogWrites
    /\ mid \in DOMAIN mechanics
    /\ mechanics' = UpdateMechanicsRow(mechanics, mid,
            [mechanics[mid] EXCEPT !.is_active = active, !.is_verified = verified])
    /\ ops' = ops + 1
    /\ search' = NoSearch
    /\ UNCHANGED <<reviews, mechanic_services, lastWrite, txs, http, service_rows, service_translations, node_env, installed, proc>>

(* UPDATE mechanics SET latitude = .., longitude = .. WHERE id = mid *)
SetMechanicPosition(mid, lat, lng) ==
    /\ ops < MaxCatalogWrites
    /\ mid \in DOMAIN mechanics
    /\ mechanics' = UpdateMechanicsRow(mechanics, mid,
            [mechanics[mid] EXCEPT !.latitude = lat, !.longitude = lng])
    /\ ops' = ops + 1
    /\ search' = NoSearch
    /\ UNCHANGED <<reviews, mechanic_services, lastWrite, txs, http, service_rows, service_translations, node_env, installed, proc>>

(* CHECK (min_price <= max_price) *)
PriceCheck(row) == row.min_price <= row.max_price

(* INSERT INTO mechanic_services ...; UNIQUE(mechanic_id, service_id) *)
InsertOffering(mid, sid, lo, hi, avail) ==
    /\ ops < MaxCatalogWrites
    /\ mid \in DOMAIN mechanics
    /\ ~\E o \in mechanic_services : o.mechanic_id = mid /\ o.service_id = sid
    /\ PriceCheck(OfferingRow(mid, sid, lo, hi, avail))
    /\ mechanic_services' = mechanic_services \cup {OfferingRow(mid, sid, lo, hi, avail)}
    /\ ops' = ops + 1
    /\ search' = NoSearch
    /\ UNCHANGED <<mechanics, reviews, lastWrite, txs, http, service_rows, service_translations, node_env, installed, proc>>

(* UPDATE mechanic_services SET min_price = .., max_price = ..,            *)
(* is_available = .. WHERE mechanic_id = mid AND service_id = sid          *)
UpdateOffering(mid, sid, lo, hi, avail) ==
    /\ ops < MaxCatalogWrites
    /\ \E old \in mechanic_services :
          /\ old.mechanic_id = mid /\ old.service_id = sid
          /\ PriceCheck(OfferingRow(mid, sid, lo, hi, avail))
          /\ mechanic_services' =
                (mechanic_services \ {old}) \cup {OfferingRow(mid, sid, lo, hi, avail)}
    /\ ops' = ops + 1
    /\ search' = NoSearch
    /\ UNCHANGED <<mechanics, reviews, lastWrite, txs, http, service_rows, service_translations, node_env, installed, proc>>

(* DELETE FROM mechanic_services WHERE mechanic_id = mid AND service_id = sid *)
DeleteOffering(mid, sid) ==
    /\ ops < MaxCatalogWrites
    /\ \E old \in mechanic_services :
          /\ old.mechanic_id = mid /\ old.service_id = sid
          /\ mechanic_services' = mechanic_services \ {old}
    /\ ops' = ops + 1
    /\ search' = NoSearch
    /\ UNCHANGED <<mechanics, reviews, lastWrite, txs, http, service_rows, service_translations, node_env, installed, proc>>

(* SELECT * FROM find_mechanics_within_radius(lat, lng, radius, filter);   *)
(* filtered = FALSE is service_filter NULL.  The session runs one          *)
(* statement at a time: the rows stay until its next statement.            *)
Search(lat, lng, radius, filtered, filter) ==
    /\ ~search.called
    /\ \E rows \in find_mechanics_within_radius(mechanics, mechanic_services, lat, lng, radius, filtered, filter) :
          search' = [called |-> TRUE, search_lat |-> lat, search_lng |-> lng,
                     radius_miles |-> radius, service_filter |-> filter,
                     filtered |-> filtered, rows |-> rows]
    /\ UNCHANGED <<mechanics, reviews, mechanic_services, lastWrite, txs, ops, http, service_rows, service_translations, node_env, installed, proc>>

NextSearch ==
    \/ \E mid \in MechanicIds, a \in BOOLEAN, v \in BOOLEAN : SetMechanicStatus(mid, a, v)
    \/ \E mid \in MechanicIds, lat \in InputLatitudes, lng \in InputLongitudes :
          SetMechanicPosition(mid, lat, lng)
    \/ \E mid \in MechanicIds, sid \in ServiceIds, lo \in InputPrices, hi \in InputPrices, avail \in BOOLEAN :
          InsertOffering(mid, sid, lo, hi, avail)
    \/ \E mid \in MechanicIds, sid \in ServiceIds, lo \in InputPrices, hi \in InputPrices, avail \in BOOLEAN :
          UpdateOffering(mid, sid, lo, hi, avail)
    \/ \E mid \in MechanicIds, sid \in ServiceIds : DeleteOffering(mid, sid)
    \/ \E lat \in SearchLatitudes, radius \in SearchRadii :
          Search(lat, SeedLongitude, radius, FALSE, <<>>)
    \/ \E lat \in SearchLatitudes, radius \in SearchRadii, filter \in SearchFilters :
          Search(lat, SeedLongitude, radius, TRUE, filter)

SpecSearch == Init /\ [][NextSearch]_vars

-----------------------------------------------------------------------------
(* Properties of find_mechanics_within_radius.  The tables do not change   *)
(* while search holds a result, so the rows are judged against the tables  *)
(* they were computed from.                                                *)

Returned == {search.rows[i].id : i \in DOMAIN search.rows}

OfferingsOf(mid) == {o \in mechanic_services : o.mechanic_id = mid}

(* The mechanic's latitude/longitude lie within radius_miles of the point  *)
(* searched from, at 1 mile = 1609.34 m.                                   *)
PositionWithinRadius(mid) ==
    /\ mechanics[mid].latitude # NULL
    /\ mechanics[mid].longitude # NULL
    /\ 100 * MetersPerStep * (Abs(mechanics[mid].latitude - search.search_lat)
                              + Abs(mechanics[mid].longitude - search.search_lng))
          <= search.radius_miles * MetersPerMileE2

(* C4: for every query point, radius and service filter, no returned       *)
(* mechanic has is_active or is_verified other than true.                  *)
C4_OnlyActiveVerified ==
    search.called =>
        \A mid \in Returned : mechanics[mid].is_active /\ mechanics[mid].is_verified

(* C4 witness: a search from the very position of a mechanic that has an   *)
(* available offering but is inactive or unverified; it is not returned.   *)
C4_Witness ==
    /\ search.called
    /\ \E mid \in DOMAIN mechanics :
          /\ ~(mechanics[mid].is_active /\ mechanics[mid].is_verified)
          /\ mechanics[mid].location = <<search.search_lng, search.search_lat>>
          /\ \E o \in OfferingsOf(mid) : o.is_available
          /\ mid \notin Returned

(* C5: for every radius r >= 0 and query point, every returned row has     *)
(* distance_miles <= r + 0.01.                                             *)
C5_DistanceWithinRadius ==
    (search.called /\ search.radius_miles >= 0) =>
        \A i \in DOMAIN search.rows :
            search.rows[i].distance_miles <= 100 * search.radius_miles + 1

(* C5 witness: a returned mechanic 1606 m from the query point with        *)
(* radius 1 (1609.34 m); its 0.998 miles are reported as 1.00.             *)
C5_Witness ==
    /\ search.called
    /\ search.radius_miles = 1
    /\ \E i \in DOMAIN search.rows :
          /\ search.rows[i].distance_miles = 100
          /\ ST_Distance(mechanics[search.rows[i].id].location,
                         <<search.search_lng, search.search_lat>>) = 1606

(* C6: without a service filter, every active, verified mechanic with an   *)
(* available offering whose position is within the radius is returned in   *)
(* exactly one row.                                                        *)
C6_CompleteOneRowEach ==
    (search.called /\ ~search.filtered) =>
        \A mid \in DOMAIN mechanics :
            (/\ mechanics[mid].is_active
             /\ mechanics[mid].is_verified
             /\ \E o \in OfferingsOf(mid) : o.is_available
             /\ PositionWithinRadius(mid))
            => Cardinality({i \in DOMAIN search.rows : search.rows[i].id = mid}) = 1

(* C6 witness: a mechanic with two available offerings, within the radius, *)
(* is returned in one row, next to another mechanic.                       *)
C6_Witness ==
    /\ search.called /\ ~search.filtered
    /\ Len(search.rows) >= 2
    /\ \E mid \in Returned :
          /\ Cardinality({o \in OfferingsOf(mid) : o.is_available}) = 2
          /\ PositionWithinRadius(mid)
          /\ Cardinality({i \in DOMAIN search.rows : search.rows[i].id = mid}) = 1

(* C7: the returned rows are in non-decreasing order of distance_miles.    *)
C7_SortedByReportedDistance ==
    search.called =>
        \A i \in DOMAIN search.rows : \A j \in DOMAIN search.rows :
            i + 1 = j => search.rows[i].distance_miles <= search.rows[j].distance_miles

(* C7 witness: two rows with different distances, the nearer one first *)
C7_Witness ==
    /\ search.called
    /\ Len(search.rows) >= 2
    /\ search.rows[1].distance_miles < search.rows[2].distance_miles

(* name contains sub as a substring, up to case *)
ContainsIgnoringCase(name, sub) ==
    \E k \in 0..(Len(name) - Len(sub)) :
        \A j \in 1..Len(sub) : Lower(name[k + j]) = Lower(sub[j])

(* C8: every returned mechanic has an offering with is_available = true    *)
(* and, when a service filter is given, an available offering whose        *)
(* service name contains the filter as a case-insensitive substring.       *)
C8_AvailableMatchingOffering ==
    search.called =>
        \A mid \in Returned :
            \E o \in OfferingsOf(mid) :
                /\ o.is_available
                /\ search.filtered =>
                      ContainsIgnoringCase(services[o.service_id], search.service_filter)

(* C9 as claimed: min_price and max_price of a row are the minimum of      *)
(* min_price and the maximum of max_price over all of the mechanic's       *)
(* mechanic_services rows, and min_price <= max_price.                     *)
C9_PricesOverAllOfferings ==
    search.called =>
        \A i \in DOMAIN search.rows :
            LET row == search.rows[i]
                all == OfferingsOf(row.id)
            IN  /\ \E o \in all : o.min_price = row.min_price
                /\ \A o \in all : row.min_price <= o.min_price
                /\ \E o \in all : o.max_price = row.max_price
                /\ \A o \in all : row.max_price >= o.max_price
                /\ row.min_price <= row.max_price

(* The offerings of a mechanic that the query reads: the available ones    *)
(* whose service matches the filter, if one is given.                      *)
MatchingOfferings(mid) ==
    {o \in OfferingsOf(mid) :
        /\ o.is_available
        /\ FilterMatches(services[o.service_id], search.filtered, search.service_filter)}

(* C9 as amended: min_price and max_price of a row are the minimum of      *)
(* min_price and the maximum of max_price over the mechanic's available    *)
(* offerings that match the service filter (all available ones when no     *)
(* filter is given), and min_price <= max_price.                           *)
C9_PricesOverMatchingOfferings ==
    search.called =>
        \A i \in DOMAIN search.rows :
            LET row == search.rows[i]
                offs == MatchingOfferings(row.id)
            IN  /\ \E o \in offs : o.min_price = row.min_price
                /\ \A o \in offs : row.min_price <= o.min_price
                /\ \E o \in offs : o.max_price = row.max_price
                /\ \A o \in offs : row.max_price >= o.max_price
                /\ row.min_price <= row.max_price

(* C9 witness: a returned mechanic has a cheaper offering that the query   *)
(* does not read, and the row's min_price is that of an offering it reads. *)
C9_Witness ==
    /\ search.called
    /\ \E i \in DOMAIN search.rows :
          LET row == search.rows[i]
          IN  /\ \E o \in MatchingOfferings(row.id) : o.min_price = row.min_price
              /\ \E o \in OfferingsOf(row.id) \ MatchingOfferings(row.id) :
                    o.min_price < row.min_price

-----------------------------------------------------------------------------
(* GET /api/mechanics/nearby.  Two handlers answer this path: the router   *)
(* mounted under /api/mechanics and the handler of the development server. *)
(* A query parameter is a string, written as a tuple of characters, or is  *)
(* absent.                                                                 *)

Absent == <<"undefined">>
NaN == -1999999999
CoordScale == 10000          \* coordinates are counted in 1/10000 degree
FractionDigits == 4

Digits == <<"0", "1", "2", "3", "4", "5", "6", "7", "8", "9">>
IsDigit(c) == \E i \in DOMAIN Digits : Digits[i] = c
DigitValue(c) == (CHOOSE i \in DOMAIN Digits : Digits[i] = c) - 1

(* the number of digits of str from position from on *)
RECURSIVE DigitRun(_, _)
DigitRun(str, from) ==
    IF from <= Len(str) /\ IsDigit(str[from]) THEN 1 + DigitRun(str, from + 1) ELSE 0

(* the value of the n digits of str that begin at position from *)
RECURSIVE DigitsValue(_, _, _)
DigitsValue(str, from, n) ==
    IF n = 0 THEN 0
    ELSE 10 * DigitsValue(str, from, n - 1) + DigitValue(str[from + n - 1])

RECURSIVE Pow10(_)
Pow10(n) == IF n = 0 THEN 1 ELSE 10 * Pow10(n - 1)

SignLength(str) == IF Len(str) >= 1 /\ str[1] \in {"-", "+"} THEN 1 ELSE 0
SignOf(str) == IF Len(str) >= 1 /\ str[1] = "-" THEN -1 ELSE 1

(* parseFloat: the longest prefix sign, digits, '.', digits; NaN when it   *)
(* has no digit.  The value is in 1/10000, digits beyond the fourth of the *)
(* fraction dropped.                                                       *)
ParseFloat(str) ==
    LET s == SignLength(str)
        n == DigitRun(str, s + 1)
        dot == s + n + 1
        f == IF dot <= Len(str) /\ str[dot] = "." THEN DigitRun(str, dot + 1) ELSE 0
        k == IF f > FractionDigits THEN FractionDigits ELSE f
    IN  IF n = 0 /\ f = 0 THEN NaN
        ELSE SignOf(str) * (CoordScale * DigitsValue(str, s + 1, n)
                            + DigitsValue(str, dot + 1, k) * Pow10(FractionDigits - k))

(* parseInt(str, 10): the longest prefix sign, digits; NaN when it has no digit *)
ParseInt(str) ==
    LET s == SignLength(str)
        n == DigitRun(str, s + 1)
    IN  IF n = 0 THEN NaN ELSE SignOf(str) * DigitsValue(str, s + 1, n)

(* a comparison with NaN is false *)
JsLess(a, b) == a # NaN /\ b # NaN /\ a < b

(* Faulty variant of Falsy: only an absent parameter counts as missing *)
FalsyOnlyUndefined(value) == value = Absent

(* !value of a query parameter: absent, or the empty string *)
Falsy(value) == value = Absent \/ value = <<>>

MaxLatitude == 90
MaxLongitude == 180
DefaultRadius == <<"1", "0">>

(* Messages of errors the driver rejects a query with *)
ErrorMessages == {"connect ECONNREFUSED 127.0.0.1:5432", "canceling statement due to statement timeout"}

(* database.query(): the statement fails (the promise is rejected with an  *)
(* Error that has a message), or it resolves with the rows of the          *)
(* statement.                                                              *)
QueryFailed(message) == [failed |-> TRUE, rows |-> <<>>, message |-> message]
QueryFailures == {QueryFailed(message) : message \in ErrorMessages}
QueryOk(rows) == [failed |-> FALSE, rows |-> rows, message |-> ""]

(* SELECT * FROM find_mechanics_within_radius($1, $2, $3).  A NaN          *)
(* parameter gives an error or no row.  In a store without the function    *)
(* the statement fails.                                                    *)
QueryResults(lat, lng, radiusMiles) ==
    QueryFailures \cup
    IF "find_mechanics_within_radius" \notin installed
    THEN {QueryFailed("function find_mechanics_within_radius(unknown, unknown, unknown) does not exist")}
    ELSE IF NaN \in {lat, lng, radiusMiles} THEN {QueryOk(<<>>)}
    ELSE {QueryOk(rows) : rows \in find_mechanics_within_radius(mechanics, mechanic_services, lat, lng, radiusMiles, FALSE, <<>>)}

(* res.status(status).json(...): the response to the request *)
(* cause is the message of the error the query failed with, "" if none.    *)
Reply(route, handler, latitude, longitude, param, status, queried, cause, params, rows, body) ==
    /\ http' = [state |-> "responded", route |-> route, handler |-> handler,
                latitude |-> latitude, longitude |-> longitude, param |-> param,
                status |-> status, queried |-> queried, failed |-> cause # "",
                params |-> params, rows |-> rows, body |-> body, cause |-> cause,
                responses |-> http.responses + 1]
    /\ UNCHANGED <<mechanics, reviews, mechanic_services, lastWrite, txs, search, ops,
                   service_rows, service_translations, node_env, installed, proc>>

Respond(handler, latitude, longitude, status, queried, params, rows, body) ==
    Reply("nearby", handler, latitude, longitude, <<>>, status, queried, "", params, rows, body)

(* the body of the catch block of the handler of /nearby: the router's     *)
(* has status and message, the application's also error: error.message     *)
NearbyCatchBody(handler, message) ==
    IF handler = "app" THEN ErrorBodyWithDetail("Failed to find nearby mechanics", message)
    ELSE ErrorBody("Failed to find nearby mechanics")

(* Faulty variant of QueryAndRespond: a failed query is answered like an   *)
(* empty result                                                            *)
QueryAndRespondSwallow(handler, latitude, longitude, lat, lng, radiusMiles) ==
    \E result \in QueryResults(lat, lng, radiusMiles) :
        IF result.failed
        THEN Reply("nearby", handler, latitude, longitude, <<>>, 200, TRUE, result.message,
                   <<lat, lng, radiusMiles>>, <<>>, SuccessBody)
        ELSE Respond(handler, latitude, longitude, 200, TRUE, <<lat, lng, radiusMiles>>, result.rows, SuccessBody)

(* the tail both handlers share: run the query, answer 200, or 500 from    *)
(* the catch block                                                         *)
QueryAndRespond(handler, latitude, longitude, lat, lng, radiusMiles) ==
    \E result \in QueryResults(lat, lng, radiusMiles) :
        IF result.failed
        THEN Reply("nearby", handler, latitude, longitude, <<>>, 500, TRUE, result.message,
                   <<lat, lng, radiusMiles>>, <<>>, NearbyCatchBody(handler, result.message))
        ELSE Respond(handler, latitude, longitude, 200, TRUE, <<lat, lng, radiusMiles>>, result.rows, SuccessBody)

(* router.get('/nearby') *)
RouterNearby(latitude, longitude, radiusParam) ==
    LET radius == IF radiusParam = Absent THEN DefaultRadius ELSE radiusParam
    IN  IF Falsy(latitude) \/ Falsy(longitude)
        THEN Respond("router", latitude, longitude, 400, FALSE, <<>>, <<>>,
                     ErrorBody("Latitude and longitude are required"))
        ELSE \E lat \in {ParseFloat(latitude)}, lng \in {ParseFloat(longitude)}, radiusMiles \in {ParseInt(radius)} :
                 QueryAndRespond("router", latitude, longitude, lat, lng, radiusMiles)

(* app.get('/api/mechanics/nearby') *)
AppNearby(latitude, longitude, radiusParam) ==
    LET radius == IF radiusParam = Absent THEN DefaultRadius ELSE radiusParam
    IN  IF Falsy(latitude) \/ Falsy(longitude)
        THEN Respond("app", latitude, longitude, 400, FALSE, <<>>, <<>>,
                     ErrorBody("latitude and longitude parameters are required"))
        ELSE \E lat \in {ParseFloat(latitude)}, lng \in {ParseFloat(longitude)}, radiusMiles \in {ParseInt(radius)} :
                 IF \/ JsLess(lat, -MaxLatitude * CoordScale)
                    \/ JsLess(MaxLatitude * CoordScale, lat)
                    \/ JsLess(lng, -MaxLongitude * CoordScale)
                    \/ JsLess(MaxLongitude * CoordScale, lng)
                 THEN Respond("app", latitude, longitude, 400, FALSE, <<>>, <<>>,
                              ErrorBody("Invalid coordinates. Latitude: -90 to 90, Longitude: -180 to 180"))
                 ELSE QueryAndRespond("app", latitude, longitude, lat, lng, radiusMiles)

QueryLatitudes ==
    {Absent, <<>>, <<"3", "4", ".", "0", "5", "2", "2">>, <<"3", "4", ".", "0", "5", "2", "3">>,
     <<"9", "0">>, <<"9", "0", ".", "0", "0", "0", "1">>, <<"9", "1">>,
     <<"-", "9", "0">>, <<"-", "9", "1">>, <<"x">>}
QueryLongitudes ==
    {Absent, <<"-", "1", "1", "8", ".", "2", "4", "3", "7">>, <<"1", "8", "0">>,
     <<"1", "8", "0", ".", "5">>, <<"-", "1", "8", "1">>, <<"x">>}
QueryRadii == {Absent, <<"0">>, <<"1">>, <<"2", ".", "5">>, <<"x">>}

(* the request names a number outside [-90, 90] as latitude or a number    *)
(* outside [-180, 180] as longitude                                        *)
OutOfRange(latitude, longitude) ==
    \/ /\ latitude # Absent
       /\ \/ JsLess(ParseFloat(latitude), -MaxLatitude * CoordScale)
          \/ JsLess(MaxLatitude * CoordScale, ParseFloat(latitude))
    \/ /\ longitude # Absent
       /\ \/ JsLess(ParseFloat(longitude), -MaxLongitude * CoordScale)
          \/ JsLess(MaxLongitude * CoordScale, ParseFloat(longitude))

(* C10: a request to GET /api/mechanics/nearby with a latitude outside     *)
(* [-90, 90] or a longitude outside [-180, 180] is answered with 400 and   *)
(* no storage query is executed for it.                                    *)
C10_OutOfRangeRejected ==
    (http.state = "responded" /\ OutOfRange(http.latitude, http.longitude)) =>
        (http.status = 400 /\ ~http.queried)

(* the parameter is present and not empty, and parseFloat gives NaN for it *)
Malformed(value) == value # Absent /\ value # <<>> /\ ParseFloat(value) = NaN

(* C11: a request to GET /api/mechanics/nearby whose latitude or longitude *)
(* is present but does not parse as a number is answered with 400 and no   *)
(* storage query is executed for it.                                       *)
C11_MalformedRejected ==
    (http.state = "responded" /\ (Malformed(http.latitude) \/ Malformed(http.longitude))) =>
        (http.status = 400 /\ ~http.queried)

(* the parameter is absent or the empty string *)
Missing(value) == value = Absent \/ value = <<>>

(* C12: a request to GET /api/mechanics/nearby whose latitude or longitude *)
(* is missing (absent or empty) is answered with 400, and no storage query *)
(* is issued for it.                                                       *)
C12_MissingRejected ==
    (http.route = "nearby" /\ (Missing(http.latitude) \/ Missing(http.longitude))) =>
        (http.status = 400 /\ ~http.queried)

(* C12 witness: the router has answered 400, without a query, a request    *)
(* whose latitude is the empty string and whose longitude is a number.     *)
C12_Witness ==
    /\ http.route = "nearby"
    /\ http.handler = "router"
    /\ http.latitude = <<>>
    /\ http.longitude # Absent /\ ParseFloat(http.longitude) # NaN
    /\ http.status = 400
    /\ ~http.queried

(* C13: the radius argument of every proximity query that GET              *)
(* /api/mechanics/nearby executes is a positive integer; a radius that is  *)
(* zero, negative or not a number never reaches the query.                 *)
C13_RadiusPositive ==
    (http.route = "nearby" /\ http.queried) =>
        (http.params[3] # NaN /\ http.params[3] >= 1)

-----------------------------------------------------------------------------
(* GET /api/services *)

(* The place of a character in the collation: the blank first, then the    *)
(* letters whatever their case.                                            *)
RankOf ==
    [c \in {" "} \cup {UpperCase[i] : i \in DOMAIN UpperCase} \cup {LowerCase[i] : i \in DOMAIN LowerCase} |->
        IF c = " " THEN 0 ELSE CHOOSE i \in DOMAIN LowerCase : LowerCase[i] = Lower(c)]
Rank(c) == RankOf[c]

(* -1, 0 or 1 as a sorts before, with or after b, compared from position i *)
RECURSIVE StrCompare(_, _, _)
StrCompare(a, b, i) ==
    IF i > Len(a) THEN (IF i > Len(b) THEN 0 ELSE -1)
    ELSE IF i > Len(b) THEN 1
    ELSE IF Rank(a[i]) < Rank(b[i]) THEN -1
    ELSE IF Rank(a[i]) > Rank(b[i]) THEN 1
    ELSE StrCompare(a, b, i + 1)

(* FROM services s LEFT JOIN service_translations st ON s.id =             *)
(* st.service_id AND st.language_code = $1 WHERE s.is_active = true: one   *)
(* joined row per matching translation, one with a NULL st when there is   *)
(* none.  A column of st is <<>> when it is NULL.                          *)
NoTranslation == <<>>
ServiceJoin(svcs, trans, language) ==
    LET active == {i \in DOMAIN svcs : svcs[i].is_active}
        matching(sid) == {x \in trans : x.service_id = sid /\ x.language_code = language}
    IN  UNION {IF matching(sid) = {}
               THEN {[s |-> sid, st |-> [name |-> NoTranslation, description |-> NoTranslation]]}
               ELSE {[s |-> sid, st |-> [name |-> t.name, description |-> t.description]] :
                        t \in matching(sid)} : sid \in active}

(* Faulty variant of Coalesce: the canonical name always *)
CoalesceSecond(a, b) == b

(* COALESCE(a, b) *)
Coalesce(a, b) == IF a # NoTranslation THEN a ELSE b

(* Faulty variant of ServiceResultRows: the description of the translation *)
(* whenever the name is the translation's                                  *)
ServiceResultRowsJointFallback(svcs, trans, language) ==
    {[id |-> jr.s, category |-> svcs[jr.s].category,
      name |-> Coalesce(jr.st.name, svcs[jr.s].name),
      description |-> IF jr.st.name # NoTranslation THEN jr.st.description
                      ELSE svcs[jr.s].description] : jr \in ServiceJoin(svcs, trans, language)}

(* the SELECT list: s.id, s.category, COALESCE(st.name, s.name) as name,   *)
(* COALESCE(st.description, s.description) as description                  *)
ServiceResultRows(svcs, trans, language) ==
    {[id |-> jr.s, category |-> svcs[jr.s].category,
      name |-> Coalesce(jr.st.name, svcs[jr.s].name),
      description |-> Coalesce(jr.st.description, svcs[jr.s].description)] :
         jr \in ServiceJoin(svcs, trans, language)}

(* ORDER BY s.category, s.name: the columns of services *)
OrderedByCategoryName(svcs, seq) ==
    \A i \in 1..(Len(seq) - 1) :
        LET c == StrCompare(svcs[seq[i].id].category, svcs[seq[i + 1].id].category, 1)
        IN  \/ c < 0
            \/ c = 0 /\ StrCompare(svcs[seq[i].id].name, svcs[seq[i + 1].id].name, 1) <= 0

(* the results the statement may give: the rows in any order that ORDER BY allows *)
ServicesQuery(svcs, trans, language) ==
    LET rows == ServiceResultRows(svcs, trans, language)
        n == Cardinality(rows)
    IN  {seq \in [1..n -> rows] :
            /\ \A i, j \in 1..n : i # j => seq[i] # seq[j]
            /\ OrderedByCategoryName(svcs, seq)}

ServicesQueryResults(language) ==
    QueryFailures \cup
    {QueryOk(rows) : rows \in ServicesQuery(service_rows, service_translations, language)}

(* router.get('/') of routes/services.ts: language = 'en' when undefined *)
RouterServices(languageParam) ==
    LET language == IF languageParam = Absent THEN LangEn ELSE languageParam
    IN  \E result \in ServicesQueryResults(language) :
            IF result.failed
            THEN Reply("services", "router", <<>>, <<>>, languageParam, 500, TRUE, result.message,
                       <<language>>, <<>>, ErrorBody("Failed to get services"))
            ELSE Reply("services", "router", <<>>, <<>>, languageParam, 200, TRUE, "",
                       <<language>>, result.rows, SuccessBody)

(* app.get('/api/services'): req.query.language || 'en' *)
AppServices(languageParam) ==
    LET language == IF Falsy(languageParam) THEN LangEn ELSE languageParam
    IN  \E result \in ServicesQueryResults(language) :
            IF result.failed
            THEN Reply("services", "app", <<>>, <<>>, languageParam, 500, TRUE, result.message,
                       <<language>>, <<>>,
                       ErrorBodyWithDetail("Failed to fetch services", result.message))
            ELSE Reply("services", "app", <<>>, <<>>, languageParam, 200, TRUE, "",
                       <<language>>, result.rows, SuccessBody)

QueryLanguages == {Absent, <<>>, LangEn, LangEs, LangFr}

-----------------------------------------------------------------------------
(* GET /api/mechanics/:id *)

(* The text of an id is a non-empty run of digits; any other text is not   *)
(* of the form of a uuid and the cast of the parameter fails.              *)
InvalidUuid == -1
UuidIn(str) ==
    IF Len(str) > 0 /\ DigitRun(str, 1) = Len(str) THEN DigitsValue(str, 1, Len(str))
    ELSE InvalidUuid

(* An SQL array value: NULL, or the elements in order *)
NullArray == [null |-> TRUE, elems |-> <<>>]
ArrayOf(elems) == [null |-> FALSE, elems |-> elems]

(* array_agg(DISTINCT x) over the values S that pass the FILTER: NULL when *)
(* no row is left, else the distinct values, in an order the statement     *)
(* does not fix.                                                           *)
ArrayAggDistinct(S) ==
    IF S = {} THEN {NullArray}
    ELSE {ArrayOf(seq) : seq \in {q \in [1..Cardinality(S) -> S] :
                                     \A a, b \in 1..Cardinality(S) : a # b => q[a] # q[b]}}

(* FROM mechanics m LEFT JOIN mechanic_services ms ... LEFT JOIN services  *)
(* s ... WHERE m.id = $1 AND m.is_active = true GROUP BY m.id: the results *)
(* the statement may give, of one row or none                              *)
MechanicByIdRows(mechs, offers, svcs, mid) ==
    IF mid \in DOMAIN mechs /\ mechs[mid].is_active
    THEN {<<[id |-> mid, services |-> arr]>> :
             arr \in ArrayAggDistinct({svcs[o.service_id].name :
                                          o \in {x \in offers : x.mechanic_id = mid}})}
    ELSE {<<>>}

MechanicQueryResults(id) ==
    QueryFailures \cup
    IF UuidIn(id) = InvalidUuid THEN {}
    ELSE {QueryOk(rows) : rows \in MechanicByIdRows(mechanics, mechanic_services, service_rows, UuidIn(id))}

(* Faulty variant of RouterMechanic without the catch block: the promise  *)
(* of the handler is rejected and nothing is sent                          *)
RouterMechanicNoCatch(id) ==
    \E result \in MechanicQueryResults(id) :
        IF result.failed
        THEN /\ http' = [http EXCEPT !.state = "rejected", !.cause = result.message]
             /\ UNCHANGED <<mechanics, reviews, mechanic_services, lastWrite, txs, search, ops, service_rows, service_translations, node_env, installed, proc>>
        ELSE IF Len(result.rows) = 0
        THEN Reply("mechanic", "router", <<>>, <<>>, id, 404, TRUE, "", <<id>>, <<>>,
                   ErrorBody("Mechanic not found"))
        ELSE Reply("mechanic", "router", <<>>, <<>>, id, 200, TRUE, "", <<id>>,
                   <<result.rows[1]>>, SuccessBody)

(* router.get('/:id') *)
RouterMechanic(id) ==
    \E result \in MechanicQueryResults(id) :
        IF result.failed
        THEN Reply("mechanic", "router", <<>>, <<>>, id, 500, TRUE, result.message, <<id>>, <<>>,
                   ErrorBody("Failed to get mechanic details"))
        ELSE IF Len(result.rows) = 0
        THEN Reply("mechanic", "router", <<>>, <<>>, id, 404, TRUE, "", <<id>>, <<>>,
                   ErrorBody("Mechanic not found"))
        ELSE Reply("mechanic", "router", <<>>, <<>>, id, 200, TRUE, "", <<id>>,
                   <<result.rows[1]>>, SuccessBody)

PathIds == {<<"1">>, <<"2">>, <<"9">>, <<"x">>}

-----------------------------------------------------------------------------
(* The HTTP layer: one request, on the tables as a catalog write may have  *)
(* left them.                                                              *)
NextHttp ==
    \/ \E latitude \in QueryLatitudes, longitude \in QueryLongitudes, radius \in QueryRadii :
          http.state = "idle" /\ RouterNearby(latitude, longitude, radius)
    \/ \E latitude \in QueryLatitudes, longitude \in QueryLongitudes, radius \in QueryRadii :
          http.state = "idle" /\ AppNearby(latitude, longitude, radius)
    \/ \E language \in QueryLanguages : http.state = "idle" /\ RouterServices(language)
    \/ \E language \in QueryLanguages : http.state = "idle" /\ AppServices(language)
    \/ \E id \in PathIds : http.state = "idle" /\ RouterMechanic(id)
    \/ \E mid \in MechanicIds, active, verified \in BOOLEAN :
          http.state = "idle" /\ SetMechanicStatus(mid, active, verified)

SpecHttp == Init /\ [][NextHttp]_vars

(* C14: when the storage query of a request to GET /api/mechanics/nearby,  *)
(* GET /api/mechanics/:id or GET /api/services fails, the response has     *)
(* status 500 and carries no result row.                                   *)
C14_FailureIsAllOrNothing ==
    (http.state = "responded" /\ http.failed) =>
        (http.status = 500 /\ http.rows = <<>>)

(* C14 witness: the query of a services request has failed on a catalog    *)
(* that has active services, and the answer is 500 without rows.           *)
C14_Witness ==
    /\ http.route = "services"
    /\ http.failed
    /\ \E sid \in DOMAIN service_rows : service_rows[sid].is_active
    /\ http.status = 500
    /\ http.rows = <<>>

-----------------------------------------------------------------------------
(* Statements on mechanics *)

InputLocations == {NoPoint, ST_MakePoint(SeedLongitude, SeedLatitude + 5)}

MechanicWrite(kind, mid, loc) == [kind |-> kind, mechanic_id |-> mid, location |-> loc]

(* INSERT INTO mechanics (latitude, longitude, location) VALUES (..): the  *)
(* other columns take their defaults; the BEFORE INSERT trigger runs on    *)
(* the row.                                                                *)
InsertMechanic(lat, lng, loc) ==
    /\ ops < MaxMechanicWrites
    /\ Len(mechanics) < NumMechanics + MaxInsertedMechanics
    /\ mechanics' = Append(mechanics, BeforeMechanicsRow(
            [latitude |-> lat, longitude |-> lng, location |-> loc,
             is_active |-> TRUE, is_verified |-> FALSE,
             rating |-> DefaultRating, review_count |-> DefaultReviewCount]))
    /\ lastWrite' = MechanicWrite("insert mechanic", Len(mechanics) + 1, loc)
    /\ ops' = ops + 1
    /\ search' = NoSearch
    /\ UNCHANGED <<reviews, mechanic_services, txs, http, service_rows, service_translations, node_env, installed, proc>>

(* UPDATE mechanics SET latitude = .., longitude = .., location = ..       *)
(* WHERE id = mid; a column set to its present value is a column the       *)
(* statement leaves alone.                                                 *)
UpdateMechanic(mid, lat, lng, loc) ==
    /\ ops < MaxMechanicWrites
    /\ mid \in DOMAIN mechanics
    /\ mechanics' = UpdateMechanicsRow(mechanics, mid,
            [mechanics[mid] EXCEPT !.latitude = lat, !.longitude = lng, !.location = loc])
    /\ lastWrite' = MechanicWrite("update mechanic", mid, loc)
    /\ ops' = ops + 1
    /\ search' = NoSearch
    /\ UNCHANGED <<reviews, mechanic_services, txs, http, service_rows, service_translations, node_env, installed, proc>>

NextLocation ==
    \/ \E lat \in InputLatitudes, lng \in InputLongitudes, loc \in InputLocations :
          InsertMechanic(lat, lng, loc)
    \/ \E mid \in DOMAIN mechanics, lat \in InputLatitudes, lng \in InputLongitudes,
          loc \in InputLocations \cup {mechanics[m].location : m \in DOMAIN mechanics} :
          UpdateMechanic(mid, lat, lng, loc)
    \/ \E id \in ReviewIds, mid \in MechanicIds :
          ops < MaxMechanicWrites /\ InsertReview(id, mid, MaxRating, TRUE)

SpecLocation == Init /\ [][NextLocation]_vars

(* C15: in every state reached by inserts and updates of mechanics rows,   *)
(* the update of the rating trigger included, a mechanic whose latitude    *)
(* and longitude are both non-null has location = the point (longitude,    *)
(* latitude) of the same row, whatever location the write supplied.        *)
C15_LocationFollowsPosition ==
    \A mid \in DOMAIN mechanics :
        (mechanics[mid].latitude # NULL /\ mechanics[mid].longitude # NULL) =>
            mechanics[mid].location = <<mechanics[mid].longitude, mechanics[mid].latitude>>

(* C15 witness: the last statement wrote a mechanic with non-null latitude *)
(* and longitude and supplied another point as location; the row has the   *)
(* point of its latitude and longitude.                                    *)
C15_Witness ==
    /\ lastWrite.kind \in {"insert mechanic", "update mechanic"}
    /\ LET row == mechanics[lastWrite.mechanic_id]
       IN  /\ row.latitude # NULL /\ row.longitude # NULL
           /\ lastWrite.location # NoPoint
           /\ lastWrite.location # <<row.longitude, row.latitude>>
           /\ row.location = <<row.longitude, row.latitude>>

(* C16: in every reachable state a mechanic's location is the projection   *)
(* of the row's present latitude and longitude: the point (longitude,      *)
(* latitude), and no point when latitude or longitude is NULL.             *)
C16_LocationIsProjection ==
    \A mid \in DOMAIN mechanics :
        mechanics[mid].location =
            IF mechanics[mid].latitude # NULL /\ mechanics[mid].longitude # NULL
            THEN <<mechanics[mid].longitude, mechanics[mid].latitude>>
            ELSE NoPoint

-----------------------------------------------------------------------------
(* Statements on mechanic_services that name the cost columns; a statement *)
(* that violates a constraint fails and changes nothing.                   *)

(* a <= b in a CHECK: satisfied when true or unknown (a NULL operand) *)
CheckLessEq(a, b) == a = NULL \/ b = NULL \/ a <= b

(* Faulty variant of PartsCostCheck: the constraint is missing *)
PartsCostCheckMissing(row) == TRUE

(* CHECK (parts_cost_min <= parts_cost_max) *)
PartsCostCheck(row) == CheckLessEq(row.parts_cost_min, row.parts_cost_max)

(* CHECK (labor_cost_min <= labor_cost_max) *)
LaborCostCheck(row) == CheckLessEq(row.labor_cost_min, row.labor_cost_max)

TableChecks(row) == PriceCheck(row) /\ PartsCostCheck(row) /\ LaborCostCheck(row)

OfferingWithCosts(mid, sid, price, parts, labor) ==
    [OfferingRow(mid, sid, price[1], price[2], TRUE) EXCEPT
        !.parts_cost_min = parts[1], !.parts_cost_max = parts[2],
        !.labor_cost_min = labor[1], !.labor_cost_max = labor[2]]

OfferingWrite(kind, row, failed) ==
    [kind |-> kind, mechanic_id |-> row.mechanic_id, row |-> row, failed |-> failed,
     before |-> mechanic_services]

InputPriceRanges == {<<20, 60>>, <<60, 20>>}
InputCostRanges == {<<NULL, NULL>>, <<10, 40>>, <<40, 10>>, <<40, NULL>>}

(* INSERT INTO mechanic_services (mechanic_id, service_id, min_price,      *)
(* max_price, parts_cost_min, parts_cost_max, labor_cost_min,              *)
(* labor_cost_max) VALUES (..)                                             *)
InsertOfferingCosts(mid, sid, price, parts, labor) ==
    LET row == OfferingWithCosts(mid, sid, price, parts, labor)
        ok == /\ ~\E o \in mechanic_services : o.mechanic_id = mid /\ o.service_id = sid
              /\ TableChecks(row)
    IN  /\ ops < MaxPriceWrites
        /\ mid \in DOMAIN mechanics
        /\ mechanic_services' = IF ok THEN mechanic_services \cup {row} ELSE mechanic_services
        /\ lastWrite' = OfferingWrite("insert offering", row, ~ok)
        /\ ops' = ops + 1
        /\ search' = NoSearch
        /\ UNCHANGED <<mechanics, reviews, txs, http, service_rows, service_translations, node_env, installed, proc>>

(* UPDATE mechanic_services SET min_price = .., max_price = ..,            *)
(* parts_cost_min = .., .. WHERE mechanic_id = mid AND service_id = sid    *)
UpdateOfferingCosts(mid, sid, price, parts, labor) ==
    LET row == OfferingWithCosts(mid, sid, price, parts, labor)
    IN  /\ ops < MaxPriceWrites
        /\ \E old \in mechanic_services :
              /\ old.mechanic_id = mid /\ old.service_id = sid
              /\ LET new == [row EXCEPT !.is_available = old.is_available]
                 IN  /\ mechanic_services' =
                            IF TableChecks(new)
                            THEN (mechanic_services \ {old}) \cup {new}
                            ELSE mechanic_services
                     /\ lastWrite' = OfferingWrite("update offering", new, ~TableChecks(new))
        /\ ops' = ops + 1
        /\ search' = NoSearch
        /\ UNCHANGED <<mechanics, reviews, txs, http, service_rows, service_translations, node_env, installed, proc>>

NextPrices ==
    \/ \E mid \in MechanicIds, sid \in ServiceIds, price \in InputPriceRanges,
          parts \in InputCostRanges, labor \in InputCostRanges :
          InsertOfferingCosts(mid, sid, price, parts, labor)
    \/ \E mid \in MechanicIds, sid \in ServiceIds, price \in InputPriceRanges,
          parts \in InputCostRanges, labor \in InputCostRanges :
          UpdateOfferingCosts(mid, sid, price, parts, labor)

SpecPrices == Init /\ [][NextPrices]_vars

(* both bounds are non-null and the lower one is greater *)
Disordered(lo, hi) == lo # NULL /\ hi # NULL /\ lo > hi

DisorderedRow(row) ==
    \/ Disordered(row.min_price, row.max_price)
    \/ Disordered(row.parts_cost_min, row.parts_cost_max)
    \/ Disordered(row.labor_cost_min, row.labor_cost_max)

(* C17: an insert or update of a mechanic_services row that would leave    *)
(* min_price > max_price, parts_cost_min > parts_cost_max or               *)
(* labor_cost_min > labor_cost_max (both bounds non-null) fails and leaves *)
(* the table unchanged; every stored price range is ordered.               *)
C17_PriceRangesOrdered ==
    /\ \A o \in mechanic_services : ~DisorderedRow(o)
    /\ (lastWrite.kind \in {"insert offering", "update offering"}
            /\ DisorderedRow(lastWrite.row)) =>
          (lastWrite.failed /\ mechanic_services = lastWrite.before)

(* C17 witness: an update whose only fault is parts_cost_min >             *)
(* parts_cost_max has failed and the table is as it was.                   *)
C17_Witness ==
    /\ lastWrite.kind = "update offering"
    /\ Disordered(lastWrite.row.parts_cost_min, lastWrite.row.parts_cost_max)
    /\ ~Disordered(lastWrite.row.min_price, lastWrite.row.max_price)
    /\ ~Disordered(lastWrite.row.labor_cost_min, lastWrite.row.labor_cost_max)
    /\ lastWrite.failed
    /\ mechanic_services = lastWrite.before

-----------------------------------------------------------------------------
(* Statements on services and service_translations, and the requests to    *)
(* GET /api/services.                                                      *)

Aceite == <<"A", "c", "e", "i", "t", "e">>
InputTranslationNames == {Aceite}
InputDescriptions == {<<>>, <<"Cambio de aceite">>}
InputLanguages == {LangEn, LangEs}

(* UPDATE services SET is_active = .. WHERE id = sid *)
SetServiceActive(sid, active) ==
    /\ ops < MaxServiceWrites
    /\ sid \in DOMAIN service_rows
    /\ service_rows' = [service_rows EXCEPT ![sid].is_active = active]
    /\ ops' = ops + 1
    /\ http' = IdleHttp
    /\ UNCHANGED <<mechanics, reviews, mechanic_services, lastWrite, txs, search,
                   service_translations, node_env, installed, proc>>

(* INSERT INTO service_translations (service_id, language_code, name,      *)
(* description) VALUES (..); UNIQUE(service_id, language_code)             *)
InsertTranslation(sid, language, name, description) ==
    /\ ops < MaxServiceWrites
    /\ sid \in DOMAIN service_rows
    /\ ~\E t \in service_translations : t.service_id = sid /\ t.language_code = language
    /\ service_translations' = service_translations \cup {TranslationRow(sid, language, name, description)}
    /\ ops' = ops + 1
    /\ http' = IdleHttp
    /\ UNCHANGED <<mechanics, reviews, mechanic_services, lastWrite, txs, search, service_rows, node_env, installed, proc>>

(* DELETE FROM service_translations WHERE service_id = sid AND             *)
(* language_code = language                                                *)
DeleteTranslation(sid, language) ==
    /\ ops < MaxServiceWrites
    /\ \E t \in service_translations :
          /\ t.service_id = sid /\ t.language_code = language
          /\ service_translations' = service_translations \ {t}
    /\ ops' = ops + 1
    /\ http' = IdleHttp
    /\ UNCHANGED <<mechanics, reviews, mechanic_services, lastWrite, txs, search, service_rows, node_env, installed, proc>>

NextServices ==
    \/ \E sid \in DOMAIN service_rows, active \in BOOLEAN :
          http.state = "idle" /\ SetServiceActive(sid, active)
    \/ \E sid \in DOMAIN service_rows, language \in InputLanguages, name \in InputTranslationNames, description \in InputDescriptions :
          http.state = "idle" /\ InsertTranslation(sid, language, name, description)
    \/ \E sid \in DOMAIN service_rows, language \in InputLanguages :
          http.state = "idle" /\ DeleteTranslation(sid, language)
    \/ \E language \in QueryLanguages : http.state = "idle" /\ RouterServices(language)
    \/ \E language \in QueryLanguages : http.state = "idle" /\ AppServices(language)

SpecServices == Init /\ [][NextServices]_vars

(* the language code a request asks for: "en" when the parameter is omitted *)
RequestedLanguage == IF http.param = Absent THEN LangEn ELSE http.param

TranslationsFor(sid, language) ==
    {t \in service_translations : t.service_id = sid /\ t.language_code = language}

(* C18: GET /api/services for a language code L ("en" when omitted)        *)
(* returns exactly one row per active service and none for an inactive     *)
(* one; the row's name is the name of the translation for (service, L)     *)
(* when there is one, and services.name otherwise.                         *)
C18_OneRowPerActiveService ==
    (http.route = "services" /\ http.status = 200 /\ http.param # <<>>) =>
        /\ \A sid \in DOMAIN service_rows :
              Cardinality({i \in DOMAIN http.rows : http.rows[i].id = sid})
                 = IF service_rows[sid].is_active THEN 1 ELSE 0
        /\ \A i \in DOMAIN http.rows :
              LET row == http.rows[i]
                  ts == TranslationsFor(row.id, RequestedLanguage)
              IN  IF ts = {} THEN row.name = service_rows[row.id].name
                  ELSE \E t \in ts : row.name = t.name

(* C18 witness: an answer for "es" on a catalog with an inactive service   *)
(* has a translated name for one service and the canonical name for an     *)
(* untranslated one.                                                       *)
C18_Witness ==
    /\ http.route = "services" /\ http.status = 200
    /\ http.param = LangEs
    /\ \E sid \in DOMAIN service_rows : ~service_rows[sid].is_active
    /\ \E i, j \in DOMAIN http.rows :
          /\ TranslationsFor(http.rows[i].id, LangEs) # {}
          /\ http.rows[i].name # service_rows[http.rows[i].id].name
          /\ TranslationsFor(http.rows[j].id, LangEs) = {}
          /\ http.rows[j].name = service_rows[http.rows[j].id].name

(* C19: the rows of GET /api/services are ordered by category and, within  *)
(* a category, by the name the row returns for the requested language.     *)
C19_OrderedByResolvedName ==
    (http.route = "services" /\ http.status = 200) =>
        \A i \in DOMAIN http.rows : \A j \in DOMAIN http.rows :
            i + 1 = j =>
                LET c == StrCompare(http.rows[i].category, http.rows[j].category, 1)
                IN  \/ c < 0
                    \/ c = 0 /\ StrCompare(http.rows[i].name, http.rows[j].name, 1) <= 0

(* an active mechanic has the id that the text names *)
ActiveMechanicExists(id) ==
    /\ UuidIn(id) \in DOMAIN mechanics
    /\ mechanics[UuidIn(id)].is_active

(* C20: GET /api/mechanics/:id answers 404 for every value of :id for      *)
(* which no mechanic row with that id and is_active = true exists,         *)
(* deactivated mechanics and ids of any form that match no row included,   *)
(* and 200 only when such a mechanic exists.  A failure of the storage on  *)
(* a well-formed id is not the claim's case.                               *)
C20_NotFoundWithoutActiveMechanic ==
    (http.route = "mechanic" /\ (UuidIn(http.param) # InvalidUuid => ~http.failed)) =>
        /\ ~ActiveMechanicExists(http.param) => http.status = 404
        /\ http.status = 200 => ActiveMechanicExists(http.param)

-----------------------------------------------------------------------------
(* GET /api/mechanics/:id on the offerings as a catalog write may have     *)
(* left them                                                               *)
NextMechanic ==
    \/ \E mid \in MechanicIds, sid \in ServiceIds, lo \in InputPrices, hi \in InputPrices, avail \in BOOLEAN :
          http.state = "idle" /\ InsertOffering(mid, sid, lo, hi, avail)
    \/ \E mid \in MechanicIds, sid \in ServiceIds :
          http.state = "idle" /\ DeleteOffering(mid, sid)
    \/ \E mid \in MechanicIds, active, verified \in BOOLEAN :
          http.state = "idle" /\ SetMechanicStatus(mid, active, verified)
    \/ \E id \in PathIds : http.state = "idle" /\ RouterMechanic(id)

SpecMechanic == Init /\ [][NextMechanic]_vars

(* the names of the services the mechanic has an offering for *)
OfferedNames(mid) ==
    {service_rows[o.service_id].name : o \in {x \in mechanic_services : x.mechanic_id = mid}}

(* C21: on a 200 from GET /api/mechanics/:id the services field is the     *)
(* list of the names of the services the mechanic offers, each exactly     *)
(* once, and the empty list for a mechanic without offerings.              *)
C21_ServicesIsListOfNames ==
    (http.route = "mechanic" /\ http.status = 200) =>
        LET field == http.rows[1].services
            offered == OfferedNames(http.rows[1].id)
        IN  /\ ~field.null
            /\ {field.elems[i] : i \in DOMAIN field.elems} = offered
            /\ Len(field.elems) = Cardinality(offered)

-----------------------------------------------------------------------------
(* Further properties of the rating trigger *)

(* C22: in every reachable state a mechanic with no published review has   *)
(* review_count = 0 and the rating of a newly created mechanic (0.0),      *)
(* whether it never had a review, has only unpublished ones, or had its    *)
(* last published review unpublished.                                      *)
C22_NoPublishedReviewMeansDefault ==
    \A mid \in DOMAIN mechanics :
        PublishedOf(reviews, mid) = {} =>
            (mechanics[mid].review_count = 0 /\ mechanics[mid].rating = DefaultRating)

(* C23: the insert of a review with is_published = false leaves rating and *)
(* review_count of the mechanic it names as they were before the insert.   *)
C23_UnpublishedInsertChangesNothing ==
    [][\A r \in reviews' \ reviews :
          (Cardinality(reviews') = Cardinality(reviews) + 1 /\ ~r.is_published) =>
              /\ mechanics'[r.mechanic_id].rating = mechanics[r.mechanic_id].rating
              /\ mechanics'[r.mechanic_id].review_count = mechanics[r.mechanic_id].review_count]_vars

-----------------------------------------------------------------------------
(* The body of a 500 response *)

(* C24: outside a development environment, the body of the 500 response   *)
(* to a failed storage query does not depend on the message of the         *)
(* storage error: it is the body the endpoint gives for any other message, *)
(* and has no key carrying the message.                                    *)
C24_GenericFailureBody ==
    (http.state = "responded" /\ http.failed /\ node_env # "development") =>
        /\ http.status = 500
        /\ http.body.error = {}
        /\ http.cause \notin http.body.message

-----------------------------------------------------------------------------
(* A request from its arrival to its response.  Express calls the handler  *)
(* of the route with the request; the handler runs to its res.json(),      *)
(* across the await of database.query().                                   *)

(* the request arrives: method GET, the path of the route, its parameters  *)
Receive(route, handler, latitude, longitude, param) ==
    /\ http.state = "idle"
    /\ http' = [IdleHttp EXCEPT !.state = "received", !.route = route, !.handler = handler,
                                !.latitude = latitude, !.longitude = longitude, !.param = param]
    /\ UNCHANGED <<mechanics, reviews, mechanic_services, lastWrite, txs, search, ops, service_rows, service_translations, node_env, installed, proc>>

Received(route, handler) ==
    http.state = "received" /\ http.route = route /\ http.handler = handler

(* the handler of the request received runs *)
HandleRequest ==
    \/ Received("nearby", "router") /\ RouterNearby(http.latitude, http.longitude, http.param)
    \/ Received("nearby", "app") /\ AppNearby(http.latitude, http.longitude, http.param)
    \/ Received("services", "router") /\ RouterServices(http.param)
    \/ Received("services", "app") /\ AppServices(http.param)
    \/ Received("mechanic", "router") /\ RouterMechanic(http.param)

(* The requests of this specification *)
RequestLatitudes == {Absent, <<>>, <<"3", "4", ".", "0", "5", "2", "2">>, <<"9", "1">>, <<"x">>}
RequestLongitudes == {Absent, <<"-", "1", "1", "8", ".", "2", "4", "3", "7">>}
RequestLanguages == {Absent, LangEs}

NextRequests ==
    \/ \E handler \in {"router", "app"}, latitude \in RequestLatitudes, longitude \in RequestLongitudes :
          Receive("nearby", handler, latitude, longitude, Absent)
    \/ \E handler \in {"router", "app"}, language \in RequestLanguages :
          Receive("services", handler, <<>>, <<>>, language)
    \/ \E id \in PathIds : Receive("mechanic", "router", <<>>, <<>>, id)
    \/ HandleRequest

(* Node runs the handler of a request it has received, and the promise of  *)
(* database.query() settles: the handler is not postponed for ever.        *)
SpecRequests == Init /\ [][NextRequests]_vars /\ WF_vars(HandleRequest)

-----------------------------------------------------------------------------
(* Order of the rows by the distance before rounding *)

(* the distance in metres of a returned mechanic from the point searched from *)
ActualDistance(mid) ==
    ST_Distance(mechanics[mid].location, <<search.search_lng, search.search_lat>>)

(* C26: the rows of a search come nearest first by the distance before     *)
(* rounding: a mechanic farther from the query point never precedes a      *)
(* nearer one.                                                             *)
C26_NearestFirstByActualDistance ==
    search.called =>
        \A i, j \in DOMAIN search.rows :
            i < j => ActualDistance(search.rows[i].id) <= ActualDistance(search.rows[j].id)

-----------------------------------------------------------------------------
(* What a review write leaves alone *)

(* C27: an insert or update of a review changes rating and review_count of *)
(* no mechanic other than the one the written row names in mechanic_id,    *)
(* and latitude, longitude, is_active and is_verified of no mechanic.      *)
C27_ReviewWriteTouchesOneMechanic ==
    [][lastWrite'.kind \in {"insert", "update"} =>
          \A mid \in DOMAIN mechanics :
              /\ mid # lastWrite'.mechanic_id =>
                    /\ mechanics'[mid].rating = mechanics[mid].rating
                    /\ mechanics'[mid].review_count = mechanics[mid].review_count
              /\ mechanics'[mid].latitude = mechanics[mid].latitude
              /\ mechanics'[mid].longitude = mechanics[mid].longitude
              /\ mechanics'[mid].is_active = mechanics[mid].is_active
              /\ mechanics'[mid].is_verified = mechanics[mid].is_verified]_vars

(* C27 witness: a published review has just been moved by an update to     *)
(* another mechanic; that mechanic counts it, and the mechanic it was      *)
(* taken from, which no longer has a published review, keeps its count.    *)
C27_Witness ==
    /\ lastWrite.kind = "update"
    /\ mechanics[lastWrite.mechanic_id].review_count = 1
    /\ \E mid \in DOMAIN mechanics :
          /\ mid # lastWrite.mechanic_id
          /\ PublishedOf(reviews, mid) = {}
          /\ mechanics[mid].review_count = 1
          /\ mechanics[mid].rating = 100 * MaxRating

-----------------------------------------------------------------------------
(* Name and description of a row of GET /api/services *)

(* C28: in every row GET /api/services returns, the name is the            *)
(* translation's when the service has a translation for the language of    *)
(* the query, and the description is the translation's when that           *)
(* translation has one; each is the column of services otherwise, the one  *)
(* whatever the other is.                                                  *)
C28_NameAndDescriptionFallBackApart ==
    (http.route = "services" /\ http.status = 200) =>
        \A i \in DOMAIN http.rows :
            LET row == http.rows[i]
                ts == TranslationsFor(row.id, http.params[1])
            IN  /\ row.name = IF ts = {} THEN service_rows[row.id].name
                              ELSE (CHOOSE t \in ts : TRUE).name
                /\ row.description =
                      IF \E t \in ts : t.description # <<>>
                      THEN (CHOOSE t \in ts : t.description # <<>>).description
                      ELSE service_rows[row.id].description

(* C28 witness: a row with the name of a translation that has no           *)
(* description, and the description of services.                           *)
C28_Witness ==
    /\ http.route = "services" /\ http.status = 200
    /\ \E i \in DOMAIN http.rows :
          \E t \in TranslationsFor(http.rows[i].id, http.params[1]) :
              /\ t.description = <<>>
              /\ http.rows[i].name = t.name
              /\ http.rows[i].name # service_rows[http.rows[i].id].name
              /\ http.rows[i].description = service_rows[http.rows[i].id].description
              /\ http.rows[i].description # <<>>

-----------------------------------------------------------------------------
(* The store initialised from the schema that scripts/setup-schema.sh      *)
(* writes: the same tables, none of the functions and triggers.            *)

(* the mechanics registered in that store: no trigger has given them a     *)
(* location                                                                *)
SetupMechanics == [m \in MechanicIds |-> [SeedMechanics[m] EXCEPT !.location = NoPoint]]

InitSetup ==
    /\ mechanics = SetupMechanics
    /\ reviews = {}
    /\ mechanic_services = SeedOfferings
    /\ lastWrite = NoReviewWrite
    /\ txs = [t \in TxIds |-> IdleTx]
    /\ search = NoSearch
    /\ ops = 0
    /\ http = IdleHttp
    /\ service_rows = SeedServices
    /\ service_translations = SeedTranslations
    /\ node_env \in NodeEnvs
    /\ installed = SetupSchemaObjects
    /\ proc = RunningProcess

MaxSetupWrites == 1

NextSetup ==
    \/ \E lat \in InputLatitudes, lng \in InputLongitudes, loc \in InputLocations :
          http.state = "idle" /\ ops < MaxSetupWrites /\ InsertMechanic(lat, lng, loc)
    \/ \E mid \in DOMAIN mechanics, lat \in InputLatitudes, lng \in InputLongitudes,
          loc \in InputLocations \cup {mechanics[m].location : m \in DOMAIN mechanics} :
          http.state = "idle" /\ ops < MaxSetupWrites /\ UpdateMechanic(mid, lat, lng, loc)
    \/ \E id \in ReviewIds, mid \in MechanicIds :
          http.state = "idle" /\ ops < MaxSetupWrites /\ InsertReview(id, mid, MaxRating, TRUE)
    \/ \E latitude \in RequestLatitudes, longitude \in RequestLongitudes :
          http.state = "idle" /\ RouterNearby(latitude, longitude, Absent)

SpecSetup == InitSetup /\ [][NextSetup]_vars

(* C29: in the store of the schema that scripts/setup-schema.sh writes,    *)
(* the handler of routes/mechanics.ts answers every request to GET         *)
(* /api/mechanics/nearby that has both coordinates with 500, never 200;    *)
(* and no statement gives a mechanic the point of its latitude and         *)
(* longitude as location: a written row has the location the statement     *)
(* supplied, and a review write changes no mechanic.                       *)
C29_SetupStoreFailsSearch ==
    /\ (/\ http.state = "responded" /\ http.route = "nearby"
        /\ ~Falsy(http.latitude) /\ ~Falsy(http.longitude))
       => (http.status = 500 /\ http.failed)
    /\ lastWrite.kind \in {"insert mechanic", "update mechanic"}
          => mechanics[lastWrite.mechanic_id].location = lastWrite.location
    /\ \A mid \in DOMAIN mechanics :
          /\ mechanics[mid].location \in InputLocations
          /\ mechanics[mid].rating = DefaultRating
          /\ mechanics[mid].review_count = DefaultReviewCount

(* C29 witness: a mechanic inserted with latitude and longitude and no     *)
(* location has none, and the request from its very position was answered *)
(* 500 by the handler of routes/mechanics.ts.                              *)
C29_Witness ==
    /\ http.state = "responded" /\ http.route = "nearby" /\ http.handler = "router"
    /\ http.status = 500
    /\ lastWrite.kind = "insert mechanic"
    /\ LET row == mechanics[lastWrite.mechanic_id]
       IN  /\ row.latitude = ParseFloat(http.latitude)
           /\ row.longitude = ParseFloat(http.longitude)
           /\ row.location = NoPoint

-----------------------------------------------------------------------------
(* Shutdown: process.on('SIGINT') and process.on('SIGTERM').  A handler     *)
(* runs, when its signal is delivered, as far as its await: it logs, and    *)
(* database.disconnect() calls pool.end().  It goes on when the promise of  *)
(* pool.end() is settled.                                                   *)

MaxSignals == 3
Signals == {"SIGINT", "SIGTERM"}

(* pool.end(): the pool starts to close and the promise is pending; on a   *)
(* pool that is closing or closed the promise is rejected ("Called end on  *)
(* pool more than once").                                                  *)
PoolEnd(pool) == IF pool = "open" THEN "pending" ELSE "rejected"

(* the signal is delivered: logger.info(..); await database.disconnect()   *)
Signal(sig) ==
    /\ proc.exit = Running
    /\ Len(proc.handlers) < MaxSignals
    /\ proc' = [proc EXCEPT
                  !.handlers = Append(@, [signal |-> sig, promise |-> PoolEnd(proc.pool)]),
                  !.pool = IF @ = "open" THEN "ending" ELSE @,
                  !.endedTwice = @ \/ proc.pool # "open"]
    /\ UNCHANGED <<mechanics, reviews, mechanic_services, lastWrite, txs, search, ops, http, service_rows, service_translations, node_env, installed>>

(* the pool has closed its clients: the promise of the pool.end() that     *)
(* started it is resolved                                                  *)
PoolEnded ==
    /\ proc.exit = Running
    /\ proc.pool = "ending"
    /\ proc' = [proc EXCEPT
                  !.pool = "ended",
                  !.handlers = [i \in DOMAIN @ |->
                                   IF @[i].promise = "pending"
                                   THEN [@[i] EXCEPT !.promise = "resolved"] ELSE @[i]]]
    /\ UNCHANGED <<mechanics, reviews, mechanic_services, lastWrite, txs, search, ops, http, service_rows, service_translations, node_env, installed>>

(* the handler goes on after pool.end() resolved: this.isConnected =       *)
(* false; console.log(..); then process.exit(0)                            *)
HandlerExits(i) ==
    /\ proc.exit = Running
    /\ i \in DOMAIN proc.handlers
    /\ proc.handlers[i].promise = "resolved"
    /\ proc' = [proc EXCEPT !.isConnected = FALSE, !.exit = 0,
                            !.handlers[i].promise = "done"]
    /\ UNCHANGED <<mechanics, reviews, mechanic_services, lastWrite, txs, search, ops, http, service_rows, service_translations, node_env, installed>>

(* the handler goes on after pool.end() was rejected: the catch block of   *)
(* disconnect() logs and throws again, the promise of the handler is       *)
(* rejected and nothing handles it.  Node then ends the process with code  *)
(* 1, or only warns, as its --unhandled-rejections mode says.              *)
HandlerThrows(i, crash) ==
    /\ proc.exit = Running
    /\ i \in DOMAIN proc.handlers
    /\ proc.handlers[i].promise = "rejected"
    /\ proc' = [proc EXCEPT !.exit = IF crash THEN 1 ELSE @,
                            !.handlers[i].promise = "thrown"]
    /\ UNCHANGED <<mechanics, reviews, mechanic_services, lastWrite, txs, search, ops, http, service_rows, service_translations, node_env, installed>>

NextShutdown ==
    \/ \E sig \in Signals : Signal(sig)
    \/ PoolEnded
    \/ \E i \in 1..MaxSignals : HandlerExits(i)
    \/ \E i \in 1..MaxSignals, crash \in BOOLEAN : HandlerThrows(i, crash)

SpecShutdown == Init /\ [][NextShutdown]_vars

(* C30: whatever signals are delivered and however their handlers          *)
(* interleave, database.disconnect() is never called on a pool that is     *)
(* closing or closed, and the process exits with code 0 only when the pool *)
(* has closed.                                                             *)
C30_ShutdownSafeUnderRepeatedSignals ==
    /\ ~proc.endedTwice
    /\ proc.exit = 0 => proc.pool = "ended"

=============================================================================
